---- MODULE Spec2Model ----
(***************************************************************************)
(* Model of scripts/dataloaders.py: load_testdata and the three loaders    *)
(* TestDataLoader, JSONDataLoader and HFDataLoader (the definitions of     *)
(* lines 118-199, which replace the earlier ones of lines 10-111 when the  *)
(* module is imported).                                                    *)
(*                                                                         *)
(* Python strings are sequences of one-character strings, Python values    *)
(* are tagged records (NoneV, IntV, StrV), a dict is a function.           *)
(***************************************************************************)
EXTENDS Integers, Sequences, FiniteSets, TLC

VARIABLES pc, args, loader, ran, fsrc, handle, opens, lines, pos, dataset,
          pending, resp, calls, outcome, ref

vars == <<pc, args, loader, ran, fsrc, handle, opens, lines, pos, dataset,
          pending, resp, calls, outcome, ref>>

\* ------------------------------------------------------------------ bounds
MaxHead == 2
MaxLines == 2
MaxItems == 2

\* ------------------------------------------------------------ Python values
NoneV == [t |-> "None"]
IntV(n) == [t |-> "int", v |-> n]
StrV(s) == [t |-> "str", v |-> s]
EmptyMap == [k \in {} |-> NoneV]

\* bool(x) for the values that occur: None, int, str
Truthy(x) ==
  CASE x.t = "None" -> FALSE
    [] x.t = "int" -> x.v # 0
    [] x.t = "str" -> Len(x.v) > 0

\* ----------------------------------------------------------------- strings
S_jsonl == <<".", "j", "s", "o", "n", "l">>
S_dummy == <<"d", "a", "t", "a", "s", "e", "t", "/", "d", "u", "m", "m", "y">>
S_test == <<"t", "e", "s", "t">>
S_validation == <<"v", "a", "l">>
S_en == <<"e", "n">>
S_The_file == <<"T", "h", "e", " ", "f", "i", "l", "e", " ">>
S_does_not_exist == <<" ", "d", "o", "e", "s", " ", "n", "o", "t", " ",
                      "e", "x", "i", "s", "t", ".">>

P_d_jsonl == <<"d">> \o S_jsonl
P_d_json == <<"d", ".", "j", "s", "o", "n">>
P_org == <<"o", "/", "d">>

\* str.endswith
EndsWith(s, suffix) ==
  /\ Len(s) >= Len(suffix)
  /\ SubSeq(s, Len(s) - Len(suffix) + 1, Len(s)) = suffix

DigitChar == <<"0", "1", "2", "3", "4", "5", "6", "7", "8", "9">>

\* str(i) of a non-negative int, as the f-strings format it
RECURSIVE Str(_)
Str(i) == IF i < 10 THEN <<DigitChar[i + 1]>>
          ELSE Str(i \div 10) \o <<DigitChar[(i % 10) + 1]>>

Whitespace == {" ", "\t", "\n", "\r"}

RECURSIVE LStrip(_)
LStrip(s) == IF s # <<>> /\ Head(s) \in Whitespace THEN LStrip(Tail(s)) ELSE s

RECURSIVE RStrip(_)
RStrip(s) == IF s # <<>> /\ s[Len(s)] \in Whitespace
             THEN RStrip(SubSeq(s, 1, Len(s) - 1)) ELSE s

\* str.strip
Strip(s) == RStrip(LStrip(s))

\* Slice with the bound one too far: dataset[:head + 1]
Slice_OffByOne(s, k) ==
  IF k >= 0 THEN SubSeq(s, 1, IF k + 1 < Len(s) THEN k + 1 ELSE Len(s))
  ELSE SubSeq(s, 1, IF Len(s) + k + 1 > 0 THEN Len(s) + k + 1 ELSE 0)

\* dataset[:head] with head an int
Slice(s, k) ==
  IF k >= 0 THEN SubSeq(s, 1, IF k < Len(s) THEN k ELSE Len(s))
  ELSE SubSeq(s, 1, IF Len(s) + k > 0 THEN Len(s) + k ELSE 0)

\* dataset if head is None else dataset[:head]
Truncate(s, head) == IF head = NoneV THEN s ELSE Slice(s, head.v)

\* -------------------------------------------------------------- the args
\* args['a|b'] and args['a|=default']: first present alias wins, else the
\* default, else None
Arg(a, aliases, default) ==
  LET present == {i \in 1..Len(aliases) : aliases[i] \in DOMAIN a}
  IN IF present = {} THEN default
     ELSE a[aliases[CHOOSE i \in present : \A j \in present : i <= j]]

ArgDatasetPath(a) == Arg(a, <<"dataset_path", "dataset">>, NoneV)
ArgHead(a) == Arg(a, <<"dataset_head", "head">>, NoneV)
ArgSplit(a) == Arg(a, <<"split">>, StrV(S_test))
ArgSubset(a) == Arg(a, <<"subset">>, NoneV)

\* ------------------------------------------------------------ json.loads
Letters == {"a", "b"}
DigitVal(c) == CHOOSE n \in 0..9 : DigitChar[n + 1] = c
DigitChars == {DigitChar[n] : n \in 1..10}

ParseOk(v) == [ok |-> TRUE, value |-> v]
ParseFail == [ok |-> FALSE]

\* json.loads on the JSON texts that occur in the files of the model:
\* {} and {"k":d} parse to a dict, anything else (the empty text included)
\* raises JSONDecodeError
JsonLoads(t) ==
  IF t = <<"{", "}">> THEN ParseOk(EmptyMap)
  ELSE IF /\ Len(t) = 7
          /\ t[1] = "{" /\ t[2] = "\"" /\ t[3] \in Letters /\ t[4] = "\""
          /\ t[5] = ":" /\ t[6] \in DigitChars /\ t[7] = "}"
       THEN ParseOk(t[3] :> DigitVal(t[6]))
  ELSE ParseFail

\* iterating a text file: the lines, each with its line terminator
RECURSIVE SplitLines(_)
SplitLines(chars) ==
  IF chars = <<>> THEN <<>>
  ELSE LET nls == {i \in 1..Len(chars) : chars[i] = "\n"}
       IN IF nls = {} THEN <<chars>>
          ELSE LET n == CHOOSE i \in nls : \A j \in nls : i <= j
               IN <<SubSeq(chars, 1, n)>>
                    \o SplitLines(SubSeq(chars, n + 1, Len(chars)))

\* ------------------------------------------------------------ environment
\* the lines a file of the model is made of
LineText(tok) ==
  CASE tok = "objA" -> <<"{", "\"", "a", "\"", ":", "1", "}">>
    [] tok = "objB" -> <<" ", "{", "\"", "b", "\"", ":", "2", "}", " ">>
    [] tok = "bad" -> <<"{", "\"", "a", "\"", ":">>
    [] tok = "blank" -> <<>>

LineTokens == {"objA", "objB", "bad", "blank"}

SeqsUpTo(S, n) == UNION {[1..k -> S] : k \in 0..n}

RECURSIVE Render(_, _)
Render(toks, nl) ==
  IF toks = <<>> THEN <<>>
  ELSE IF Len(toks) = 1 THEN LineText(toks[1]) \o (IF nl THEN <<"\n">> ELSE <<>>)
  ELSE LineText(toks[1]) \o <<"\n">> \o Render(Tail(toks), nl)

NoFile == [state |-> "unset"]
MissingFile == [state |-> "missing"]
FileOf(toks, nl) == [state |-> "exists", toks |-> toks, nl |-> nl]

\* a last line without terminator exists only when it has characters
FilesOver(T, n) ==
  {FileOf(toks, nl) : toks \in SeqsUpTo(T, n), nl \in BOOLEAN} \
    {f \in {FileOf(toks, FALSE) : toks \in SeqsUpTo(T, n)} :
        f.toks = <<>> \/ f.toks[Len(f.toks)] = "blank"}

Files == FilesOver(LineTokens, MaxLines) \cup {MissingFile}

\* the collaborator's native record type wraps a mapping
Row(m) == [wrapper |-> "Row", fields |-> m]
Rows == {Row("a" :> 1), Row("b" :> 2 @@ "c" :> 3)}

NoResp == [state |-> "unset"]
RespItems(items) == [state |-> "items", items |-> items]
RespRaise(exc) == [state |-> "raise", exc |-> exc]
RegistryErrors == {"ConnectionError", "DatasetNotFoundError", "ValueError"}

Responses == {RespItems(s) : s \in SeqsUpTo(Rows, MaxItems)}
               \cup {RespRaise(e) : e \in RegistryErrors}

\* configurations
Paths == {P_d_jsonl, S_jsonl, P_d_json, P_org, <<>>}
Heads == (-1)..MaxHead

PathParts == {EmptyMap}
               \cup {"dataset_path" :> StrV(p) : p \in Paths}
               \cup {"dataset" :> StrV(P_d_jsonl),
                     "dataset_path" :> StrV(P_org) @@ "dataset" :> StrV(P_d_jsonl)}
HeadParts == {EmptyMap}
               \cup {"head" :> IntV(h) : h \in Heads}
               \cup {"dataset_head" :> IntV(1),
                     "dataset_head" :> IntV(0) @@ "head" :> IntV(MaxHead)}
SplitParts == {EmptyMap, "split" :> StrV(S_validation)}
SubsetParts == {EmptyMap, "subset" :> StrV(S_en), "subset" :> StrV(<<>>)}

Configs == {p @@ h @@ sp @@ su : p \in PathParts, h \in HeadParts,
                                 sp \in SplitParts, su \in SubsetParts}

\* ---------------------------------------------------------------- outcomes
NoOutcome == [kind |-> "none"]
Return(v) == [kind |-> "return", value |-> v]
Raise(e) == [kind |-> "raise", exc |-> e.exc, msg |-> e.msg]

NoExc == [exc |-> "none", msg |-> <<>>]
Exc(name, msg) == [exc |-> name, msg |-> msg]

\* ----------------------------------------------------------------- loaders
NoLoader == [kind |-> "none", dataset_path |-> <<>>, args |-> EmptyMap,
             head |-> NoneV]

\* NewLoader keeping a head that an earlier loader was given
NewLoader_Stale(kind, dataset_path, a) ==
  [kind |-> kind, dataset_path |-> dataset_path, args |-> a,
   head |-> IF loader.head # NoneV THEN loader.head ELSE ArgHead(a)]

\* DataLoader.__init__
NewLoader(kind, dataset_path, a) ==
  [kind |-> kind, dataset_path |-> dataset_path, args |-> a,
   head |-> ArgHead(a)]

\* SelectLoader testing for the extension ".json"
SelectLoader_Json(dataset_path) ==
  IF dataset_path = NoneV THEN "Test"
  ELSE IF EndsWith(dataset_path.v, <<".", "j", "s", "o", "n">>) THEN "JSON"
  ELSE "HF"

\* the branch load_testdata takes
SelectLoader(dataset_path) ==
  IF dataset_path = NoneV THEN "Test"
  ELSE IF EndsWith(dataset_path.v, S_jsonl) THEN "JSON"
  ELSE "HF"

DefaultTestNum == 10

TestRecord(i) ==
  [task_id |-> S_test \o <<"_">> \o Str(i),
   prompt |-> S_test \o <<"_", "p", "r", "o", "m", "p", "t", "_">> \o Str(i),
   canonical_solution |->
     S_test \o <<"_", "s", "o", "l", "u", "t", "i", "o", "n", "_">> \o Str(i),
   test |-> S_test \o <<"_">> \o S_test \o <<"_">> \o Str(i),
   entry_point |-> S_test \o <<"_", "e", "n", "t", "r", "y", "_">> \o Str(i)]

\* TestData with the default of the earlier TestDataLoader
TestData_Default2(head) ==
  LET n == IF Truthy(head) THEN head.v ELSE 2
  IN [i \in 1..n |-> TestRecord(i)]

\* TestDataLoader.load
TestData(head) ==
  LET n == IF Truthy(head) THEN head.v ELSE DefaultTestNum
  IN [i \in 1..n |-> TestRecord(i)]

\* ExceptClause turning a missing file into an empty dataset
ExceptClause_Swallow(e, dataset_path) ==
  IF e.exc = "FileNotFoundError" THEN Return(<<>>) ELSE Raise(e)

\* the except clause of JSONDataLoader.load
ExceptClause(e, dataset_path) ==
  IF e.exc = "FileNotFoundError"
  THEN Raise(Exc("FileNotFoundError",
                 S_The_file \o dataset_path \o S_does_not_exist))
  ELSE Raise(e)

\* what open() raises for a path that does not exist
OpenError == Exc("FileNotFoundError", <<"E", "N", "O", "E", "N", "T">>)
\* what json.loads raises
DecodeError == Exc("JSONDecodeError", <<"E", "x", "p", "e", "c", "t">>)

\* HFCall that always asks for the default split
HFCall_DefaultSplit(l) ==
  LET subset == ArgSubset(l.args)
  IN [path |-> l.dataset_path,
      name |-> IF Truthy(subset) THEN subset ELSE [t |-> "noarg"],
      split |-> StrV(S_test)]

\* the load_dataset call HFDataLoader.load makes
NoArg == [t |-> "noarg"]
HFCall(l) ==
  LET split == ArgSplit(l.args)
      subset == ArgSubset(l.args)
  IN [path |-> l.dataset_path,
      name |-> IF Truthy(subset) THEN subset ELSE NoArg,
      split |-> split]

\* [{k: v for k, v in item.items()} for item in dataset]
Normalize(items) ==
  [i \in 1..Len(items) |->
     [k \in DOMAIN items[i].fields |-> items[i].fields[k]]]

\* ------------------------------------------------------------------ state
NoRef == [set |-> FALSE]

Init ==
  /\ pc = "idle"
  /\ args = EmptyMap
  /\ loader = NoLoader
  /\ ran = <<>>
  /\ fsrc = NoFile
  /\ handle = "none"
  /\ opens = 0
  /\ lines = <<>>
  /\ pos = 0
  /\ dataset = <<>>
  /\ pending = NoExc
  /\ resp = NoResp
  /\ calls = <<>>
  /\ outcome = NoOutcome
  /\ ref = NoRef

\* load_testdata(args) up to the construction of the loader
StartOn(C) ==
  /\ pc \in {"idle", "done"}
  /\ \E a \in C :
       LET dataset_path == ArgDatasetPath(a)
           kind == SelectLoader(dataset_path)
       IN /\ args' = a
          /\ loader' = NewLoader(kind,
                                 IF kind = "Test" THEN S_dummy
                                 ELSE dataset_path.v, a)
  /\ pc' = "load"
  /\ ran' = <<>>
  /\ fsrc' = NoFile
  /\ handle' = "none"
  /\ opens' = 0
  /\ lines' = <<>>
  /\ pos' = 0
  /\ dataset' = <<>>
  /\ pending' = NoExc
  /\ resp' = NoResp
  /\ calls' = <<>>
  /\ outcome' = NoOutcome
  /\ ref' = IF ref.set /\ ref.since < 2
            THEN [ref EXCEPT !.since = @ + 1] ELSE ref

Start == StartOn(Configs)

\* TestDataLoader.load
TestLoad ==
  /\ pc = "load" /\ loader.kind = "Test"
  /\ ran' = Append(ran, "TestDataLoader.load")
  /\ outcome' = Return(TestData(loader.head))
  /\ pc' = "done"
  /\ UNCHANGED <<args, loader, fsrc, handle, opens, lines, pos, dataset,
                 pending, resp, calls, ref>>

\* JSONDataLoader.load: dataset = [], open(self.dataset_path, 'r')
JSONOpenOn(F) ==
  /\ pc = "load" /\ loader.kind = "JSON"
  /\ ran' = Append(ran, "JSONDataLoader.load")
  /\ opens' = opens + 1
  /\ \E f \in F :
       /\ fsrc' = f
       /\ IF f.state = "missing"
          THEN /\ outcome' = ExceptClause(OpenError, loader.dataset_path)
               /\ pc' = "done"
               /\ UNCHANGED <<handle, lines, pos>>
          ELSE /\ handle' = "open"
               /\ lines' = SplitLines(Render(f.toks, f.nl))
               /\ pos' = 1
               /\ pc' = "read"
               /\ UNCHANGED outcome
  /\ UNCHANGED <<args, loader, dataset, pending, resp, calls, ref>>

JSONOpen == JSONOpenOn(Files)

\* JSONReadLine skipping a line that does not parse
JSONReadLine_Skip ==
  /\ pc = "read" /\ pos <= Len(lines)
  /\ LET r == JsonLoads(Strip(lines[pos]))
     IN /\ dataset' = IF r.ok THEN Append(dataset, r.value) ELSE dataset
        /\ pos' = pos + 1
        /\ UNCHANGED <<pc, pending>>
  /\ UNCHANGED <<args, loader, ran, fsrc, handle, opens, lines, resp, calls,
                 outcome, ref>>

\* one iteration of [json.loads(line.strip()) for line in f]; dataset holds
\* the list under construction
JSONReadLine ==
  /\ pc = "read" /\ pos <= Len(lines)
  /\ LET r == JsonLoads(Strip(lines[pos]))
     IN IF r.ok
        THEN /\ dataset' = Append(dataset, r.value)
             /\ pos' = pos + 1
             /\ UNCHANGED <<pc, pending>>
        ELSE /\ pending' = DecodeError
             /\ pc' = "exit"
             /\ UNCHANGED <<dataset, pos>>
  /\ UNCHANGED <<args, loader, ran, fsrc, handle, opens, lines, resp, calls,
                 outcome, ref>>

\* JSONClose closing the handle only when the block ends normally
JSONClose_Leak ==
  /\ \/ pc = "read" /\ pos > Len(lines) /\ pc' = "slice" /\ handle' = "closed"
     \/ pc = "exit" /\ pc' = "raise" /\ UNCHANGED handle
  /\ UNCHANGED <<args, loader, ran, fsrc, opens, lines, pos, dataset, pending,
                 resp, calls, outcome, ref>>

\* leaving the with block, normally or with an exception in flight
JSONClose ==
  /\ \/ pc = "read" /\ pos > Len(lines) /\ pc' = "slice"
     \/ pc = "exit" /\ pc' = "raise"
  /\ handle' = "closed"
  /\ UNCHANGED <<args, loader, ran, fsrc, opens, lines, pos, dataset, pending,
                 resp, calls, outcome, ref>>

\* an exception of the with block reaches the except clause
JSONRaise ==
  /\ pc = "raise"
  /\ outcome' = ExceptClause(pending, loader.dataset_path)
  /\ pc' = "done"
  /\ UNCHANGED <<args, loader, ran, fsrc, handle, opens, lines, pos, dataset,
                 pending, resp, calls, ref>>

\* dataset = dataset if self.head is None else dataset[:self.head]; return
JSONReturn ==
  /\ pc = "slice"
  /\ outcome' = Return(Truncate(dataset, loader.head))
  /\ pc' = "done"
  /\ UNCHANGED <<args, loader, ran, fsrc, handle, opens, lines, pos, dataset,
                 pending, resp, calls, ref>>

\* HFDataLoader.load
HFLoadOn(R) ==
  /\ pc = "load" /\ loader.kind = "HF"
  /\ ran' = Append(ran, "HFDataLoader.load")
  /\ calls' = Append(calls, HFCall(loader))
  /\ \E r \in R :
       /\ resp' = r
       /\ outcome' = IF r.state = "raise"
                     THEN Raise(Exc(r.exc, <<>>))
                     ELSE Return(Truncate(Normalize(r.items), loader.head))
  /\ pc' = "done"
  /\ UNCHANGED <<args, loader, fsrc, handle, opens, lines, pos, dataset,
                 pending, ref>>

HFLoad == HFLoadOn(Responses)

Next ==
  \/ Start
  \/ TestLoad
  \/ JSONOpen
  \/ JSONReadLine
  \/ JSONClose
  \/ JSONRaise
  \/ JSONReturn
  \/ HFLoad

Spec == Init /\ [][Next]_vars

\* ------------------------------------------- repeated calls, one remembered
\* a completed call is remembered once, with its configuration, the file
\* and the collaborator response it saw, and what it produced
Remember ==
  /\ pc = "done" /\ ~ref.set
  /\ ref' = [set |-> TRUE, since |-> 0, args |-> args, fsrc |-> fsrc,
             resp |-> resp, kind |-> loader.kind, ran |-> ran,
             calls |-> calls, outcome |-> outcome]
  /\ UNCHANGED <<pc, args, loader, ran, fsrc, handle, opens, lines, pos,
                 dataset, pending, resp, calls, outcome>>

DetPathParts == {EmptyMap, "dataset_path" :> StrV(P_d_jsonl),
                 "dataset_path" :> StrV(P_org)}
DetHeadParts == {EmptyMap, "head" :> IntV(0), "head" :> IntV(1)}
DetSubsetParts == {EmptyMap, "subset" :> StrV(S_en)}
DetConfigs == {p @@ h @@ su : p \in DetPathParts, h \in DetHeadParts,
                              su \in DetSubsetParts}
DetFiles == {FileOf(toks, TRUE) : toks \in SeqsUpTo({"objA", "bad"}, MaxLines)}
              \cup {MissingFile}
DetResponses == {RespItems(s) : s \in SeqsUpTo({Row("a" :> 1)}, MaxItems)}
                  \cup {RespRaise("ConnectionError")}

DetStart == StartOn(DetConfigs)
DetJSONOpen == JSONOpenOn(DetFiles)
DetHFLoad == HFLoadOn(DetResponses)

NextDet ==
  \/ DetStart
  \/ TestLoad
  \/ DetJSONOpen
  \/ JSONReadLine
  \/ JSONClose
  \/ JSONRaise
  \/ JSONReturn
  \/ DetHFLoad
  \/ Remember

SpecDet == Init /\ [][NextDet]_vars

\* =================================================================== claims
\* what the formulas read off the configuration and the environment
Identifier == ArgDatasetPath(args)
ConfiguredHead == ArgHead(args)
HeadIsCap == ConfiguredHead = NoneV \/ ConfiguredHead.v >= 0
HasJsonlSuffix(s) == \E k \in 0..Len(s) : s = SubSeq(s, 1, k) \o S_jsonl
Contains(s, sub) ==
  \E i \in 1..(Len(s) + 1) : SubSeq(s, i, i + Len(sub) - 1) = sub
Min(a, b) == IF a < b THEN a ELSE b
TokObj(tok) == IF tok = "objA" THEN "a" :> 1 ELSE "b" :> 2
IsNotBlank(tok) == tok # "blank"
FileDone == pc = "done" /\ loader.kind = "JSON" /\ fsrc.state = "exists"
LoadName(kind) ==
  CASE kind = "Test" -> "TestDataLoader.load"
    [] kind = "JSON" -> "JSONDataLoader.load"
    [] kind = "HF" -> "HFDataLoader.load"

\* C1: the loader is selected from the dataset identifier alone (absent ->
\* TestDataLoader, ends with ".jsonl" -> JSONDataLoader, anything else ->
\* HFDataLoader), it is constructed with the full configuration, and the
\* call ends with the outcome of that loader's load(), run once.
C1_Dispatch ==
  pc # "idle" =>
    /\ Identifier = NoneV => loader.kind = "Test"
    /\ Identifier # NoneV /\ HasJsonlSuffix(Identifier.v) => loader.kind = "JSON"
    /\ Identifier # NoneV /\ ~HasJsonlSuffix(Identifier.v) => loader.kind = "HF"
    /\ loader.args = args
    /\ pc = "done" => ran = <<LoadName(loader.kind)>> /\ outcome # NoOutcome

C1_Witness ==
  /\ pc = "done" /\ loader.kind = "JSON" /\ Identifier = StrV(S_jsonl)
  /\ outcome.kind = "return"

\* C2: for an existing file whose lines are all JSON objects and a head that
\* is absent or non-negative, load() returns the first min(head, count)
\* objects in file order (all of them without head), never more than head.
C2_FileHead ==
  FileDone /\ HeadIsCap /\ (\A i \in 1..Len(fsrc.toks) :
                               fsrc.toks[i] \in {"objA", "objB"}) =>
    LET n == Len(fsrc.toks)
        m == IF ConfiguredHead = NoneV THEN n ELSE Min(ConfiguredHead.v, n)
    IN /\ outcome.kind = "return"
       /\ outcome.value = [i \in 1..m |-> TokObj(fsrc.toks[i])]
       /\ ConfiguredHead # NoneV => Len(outcome.value) <= ConfiguredHead.v

C2_Witness ==
  /\ FileDone /\ fsrc.toks = <<"objB", "objA">> /\ ConfiguredHead = IntV(1)
  /\ outcome = Return(<<"b" :> 2>>)

\* C3: with head = 0 every loader returns an empty sequence.
C3_HeadZeroEmpty ==
  pc = "done" /\ ConfiguredHead = IntV(0) /\ outcome.kind = "return" =>
    outcome.value = <<>>

Dec == <<<<"1">>, <<"2">>, <<"3">>, <<"4">>, <<"5">>, <<"6">>, <<"7">>,
         <<"8">>, <<"9">>, <<"1", "0">>, <<"1", "1">>, <<"1", "2">>>>

\* C4: without a dataset identifier load() returns exactly n synthetic
\* records, n the configured head when positive and 10 when no head is
\* configured; record i has exactly the five fields test_i, test_prompt_i,
\* test_solution_i, test_test_i, test_entry_i.
C4_Synthetic ==
  pc = "done" /\ Identifier = NoneV
     /\ (ConfiguredHead = NoneV \/ ConfiguredHead.v > 0) =>
    LET n == IF ConfiguredHead = NoneV THEN 10 ELSE ConfiguredHead.v
    IN /\ outcome.kind = "return"
       /\ Len(outcome.value) = n
       /\ \A i \in 1..n :
            /\ DOMAIN outcome.value[i] =
                 {"task_id", "prompt", "canonical_solution", "test",
                  "entry_point"}
            /\ outcome.value[i].task_id = <<"t", "e", "s", "t", "_">> \o Dec[i]
            /\ outcome.value[i].prompt =
                 <<"t", "e", "s", "t", "_", "p", "r", "o", "m", "p", "t", "_">>
                   \o Dec[i]
            /\ outcome.value[i].canonical_solution =
                 <<"t", "e", "s", "t", "_", "s", "o", "l", "u", "t", "i", "o",
                   "n", "_">> \o Dec[i]
            /\ outcome.value[i].test =
                 <<"t", "e", "s", "t", "_", "t", "e", "s", "t", "_">> \o Dec[i]
            /\ outcome.value[i].entry_point =
                 <<"t", "e", "s", "t", "_", "e", "n", "t", "r", "y", "_">>
                   \o Dec[i]

C4_Witness ==
  /\ pc = "done" /\ Identifier = NoneV /\ ConfiguredHead = NoneV
  /\ Len(outcome.value) = 10
  /\ outcome.value[10].task_id = <<"t", "e", "s", "t", "_", "1", "0">>

\* C5: a ".jsonl" path that does not exist ends, for every head, in a
\* FileNotFoundError whose message contains the path, after one attempt to
\* open it; no record sequence is returned.
C5_NotFound ==
  pc = "done" /\ loader.kind = "JSON" /\ fsrc.state = "missing" =>
    /\ outcome.kind = "raise"
    /\ outcome.exc = "FileNotFoundError"
    /\ Contains(outcome.msg, Identifier.v)
    /\ opens = 1

C5_Witness ==
  /\ pc = "done" /\ loader.kind = "JSON" /\ fsrc.state = "missing"
  /\ ConfiguredHead = IntV(0) /\ outcome.kind = "raise"

\* C6: a file with a line that is not valid JSON, at any position and for
\* any head, ends in the parse error, propagated as raised; no partial
\* result is returned and the line is not skipped.
C6_ParseError ==
  FileDone /\ (\E i \in 1..Len(fsrc.toks) : fsrc.toks[i] \in {"bad", "blank"}) =>
    /\ outcome.kind = "raise"
    /\ outcome.exc = "JSONDecodeError"
    /\ outcome.msg = <<"E", "x", "p", "e", "c", "t">>

C6_Witness ==
  /\ FileDone /\ fsrc.toks = <<"objA", "bad">> /\ ConfiguredHead = IntV(1)
  /\ outcome.kind = "raise"

\* C7: HFDataLoader.load calls load_dataset exactly once with the
\* identifier, the configured split ("test" without one) and the subset
\* when a non-empty one is configured; it returns the items in order as
\* plain mappings with the same keys and values, cut to the first head
\* items when a (non-negative) head is given; a failure of the collaborator
\* reaches the caller unchanged.
C7_Registry ==
  pc = "done" /\ loader.kind = "HF" /\ HeadIsCap =>
    /\ calls =
         <<[path |-> Identifier.v,
            split |-> IF "split" \in DOMAIN args THEN args["split"]
                      ELSE StrV(<<"t", "e", "s", "t">>),
            name |-> IF "subset" \in DOMAIN args /\ args["subset"].v # <<>>
                     THEN args["subset"] ELSE [t |-> "noarg"]]>>
    /\ resp.state = "raise" =>
         outcome.kind = "raise" /\ outcome.exc = resp.exc
    /\ resp.state = "items" =>
         LET n == Len(resp.items)
             m == IF ConfiguredHead = NoneV THEN n ELSE Min(ConfiguredHead.v, n)
         IN /\ outcome.kind = "return"
            /\ Len(outcome.value) = m
            /\ \A i \in 1..m :
                 /\ DOMAIN outcome.value[i] = DOMAIN resp.items[i].fields
                 /\ \A k \in DOMAIN outcome.value[i] :
                      outcome.value[i][k] = resp.items[i].fields[k]

C7_Witness ==
  /\ pc = "done" /\ loader.kind = "HF" /\ ConfiguredHead = IntV(1)
  /\ "subset" \in DOMAIN args /\ args["subset"] = StrV(S_en)
  /\ "split" \in DOMAIN args
  /\ resp.state = "items" /\ Len(resp.items) = 2
  /\ Len(outcome.value) = 1

\* C8: a file in which every non-empty line is a JSON object (blank lines
\* allowed) loads successfully, giving the objects of the non-empty lines
\* in file order.
C8_BlankLines ==
  FileDone /\ (\A i \in 1..Len(fsrc.toks) :
                  fsrc.toks[i] \in {"objA", "objB", "blank"}) =>
    /\ outcome.kind = "return"
    /\ ConfiguredHead = NoneV =>
         LET kept == SelectSeq(fsrc.toks, IsNotBlank)
         IN outcome.value = [i \in 1..Len(kept) |-> TokObj(kept[i])]

\* C9: the file handle is closed before load() returns or raises: it is
\* open only while lines are read, closed with all lines consumed before the
\* truncation, and closed before a parse error reaches the caller.
C9_HandleClosed ==
  /\ pc = "done" => handle # "open"
  /\ handle = "open" => pc \in {"read", "exit"}
  /\ pc = "slice" => handle = "closed" /\ pos = Len(lines) + 1
  /\ pc = "raise" => handle = "closed"
  /\ pc = "done" /\ loader.kind = "JSON" /\ fsrc.state = "exists" =>
       handle = "closed"

C9_Witness ==
  /\ FileDone /\ handle = "closed" /\ outcome.kind = "raise"
  /\ outcome.exc = "JSONDecodeError"

\* C10: a call with the same configuration, the same file contents and the
\* same collaborator response as an earlier call selects the same loader
\* and ends with the same outcome, whatever calls came in between; no call
\* opens the file or calls the collaborator more than once.
C10_Deterministic ==
  /\ opens <= 1 /\ Len(calls) <= 1
  /\ pc = "done" /\ ref.set /\ ref.args = args /\ ref.fsrc = fsrc
       /\ ref.resp = resp =>
       /\ ref.kind = loader.kind
       /\ ref.ran = ran
       /\ ref.calls = calls
       /\ ref.outcome = outcome

C10_Witness ==
  /\ pc = "done" /\ ref.set /\ ref.since = 2
  /\ ref.args = args /\ ref.fsrc = fsrc /\ ref.resp = resp
  /\ loader.kind = "JSON" /\ outcome.kind = "return"
  /\ Len(outcome.value) = 1

====
